---- MODULE Spec2Model ----
(***************************************************************************)
(* Model of the Linear TODO editor extension (src/src/extension.ts).       *)
(*                                                                         *)
(* Text is a sequence of one-character strings, so that the regular        *)
(* expressions of the source are computed character by character.  Every   *)
(* asynchronous handler is cut at its awaits: one action per continuation. *)
(***************************************************************************)
EXTENDS Integers, Sequences, FiniteSets, TLC

VARIABLES
  activated,     \* activate() has run: commands and providers are registered
  apiKey,        \* setting linearTodo.apiKey
  linearClient,  \* the module-level client reference (extension.ts:19)
  clients,       \* number of LinearClient objects constructed so far
  settings,      \* settings teamId, projectId, cycleId, statusId
  doc,           \* the active document: a sequence of lines
  selection,     \* the editor's selection: start and end line
  task,          \* the createLinearTask invocations, by number
  cfg,           \* the configure-team/project/cycle/status invocation
  calls,         \* the remote calls issued so far (the tracker's view)
  issueCount,    \* number of issues the tracker has created
  hover,         \* the provideHover invocation
  rt             \* the rewrite / re-match pipeline applied to one line

vars == <<activated, apiKey, linearClient, clients, settings, doc, selection,
          task, cfg, calls, issueCount, hover, rt>>

----------------------------------------------------------------------------
(* Bounds of the model. *)

MaxTasks == 2
MaxClients == 2
MaxIssues == 1
MaxDigits == 1

----------------------------------------------------------------------------
(* Values. *)

Undefined == "undefined"   \* an id, a name or an answer that is undefined
\* An optional text (a text or undefined): None, or Some(text)
None == <<>>
Some(x) == <<x>>
NoKey == "nokey"
NoClient == [id |-> 0, key |-> NoKey]
Keys == {"lin_api_1", "lin_api_2"}

IsSpace(c) == c = " "
IsDigit(c) == c \in {"0", "1", "2", "3", "4", "5", "6", "7", "8", "9"}
IsUpper(c) == c \in {"A", "B", "C", "D", "E", "O", "T", "X", "Y", "Z"}

\* String(undefined), as a template literal renders it
UndefinedText == <<"u", "n", "d", "e", "f", "i", "n", "e", "d">>

----------------------------------------------------------------------------
(* The regular expressions of the source, on sequences of characters. *)

RECURSIVE SkipSpaces(_, _)
\* \s* from position j: the first position at or after j that holds no space
SkipSpaces(s, j) ==
  IF j <= Len(s) /\ IsSpace(s[j]) THEN SkipSpaces(s, j + 1) ELSE j

\* "TODO:" at position j
TodoAt(s, j) ==
  /\ j + 4 <= Len(s)
  /\ SubSeq(s, j, j + 4) = <<"T", "O", "D", "O", ":">>

\* /\/\/\s*TODO:/ anchored at position i: the position of its last character, or 0
MarkerEnd(s, i) ==
  IF i + 1 <= Len(s) /\ s[i] = "/" /\ s[i + 1] = "/"
  THEN LET j == SkipSpaces(s, i + 2) IN IF TodoAt(s, j) THEN j + 4 ELSE 0
  ELSE 0

\* lineText.match(/\/\/\s*TODO:/): the leftmost match, as [index, end], index 0 if none
todoMatch(s) ==
  LET hits == {i \in 1..Len(s) : MarkerEnd(s, i) # 0} IN
  IF hits = {} THEN [index |-> 0, end |-> 0]
  ELSE LET i == CHOOSE x \in hits : \A y \in hits : x <= y
       IN [index |-> i, end |-> MarkerEnd(s, i)]

HasTodo(s) == todoMatch(s).index # 0

RECURSIVE TrimEnd(_)
TrimEnd(s) ==
  IF Len(s) > 0 /\ IsSpace(s[Len(s)]) THEN TrimEnd(SubSeq(s, 1, Len(s) - 1)) ELSE s

\* todoMatch[1].trim() of /\/\/\s*TODO:\s*(.*)/
todoText(s) ==
  LET m == todoMatch(s) IN
  TrimEnd(SubSeq(s, SkipSpaces(s, m.end + 1), Len(s)))

RECURSIVE DigitsEnd(_, _)
\* \d+ is greedy: the last position of the run of digits that starts at j
DigitsEnd(s, j) ==
  IF j + 1 <= Len(s) /\ IsDigit(s[j + 1]) THEN DigitsEnd(s, j + 1) ELSE j

\* /[A-Z]{3,5}-\d+/ anchored at position i: the position of its last character, or 0
TaskEnd(s, i) ==
  LET ks == {k \in 3..5 :
               /\ i + k + 1 <= Len(s)
               /\ \A d \in 0..(k - 1) : IsUpper(s[i + d])
               /\ s[i + k] = "-"
               /\ IsDigit(s[i + k + 1])} IN
  IF ks = {} THEN 0
  ELSE LET k == CHOOSE x \in ks : \A y \in ks : x >= y IN DigitsEnd(s, i + k + 1)

\* lineText.match(/[A-Z]{3,5}-\d+/)?.[0]: the leftmost match, Undefined if none
linearTaskMatch(s) ==
  LET hits == {i \in 1..Len(s) : TaskEnd(s, i) # 0} IN
  IF hits = {} THEN None
  ELSE LET i == CHOOSE x \in hits : \A y \in hits : x <= y
       IN Some(SubSeq(s, i, TaskEnd(s, i)))

\* lineText.indexOf('TODO:'), counted from 1; 0 if absent
indexOfTodo(s) ==
  LET hits == {j \in 1..Len(s) : TodoAt(s, j)} IN
  IF hits = {} THEN 0 ELSE CHOOSE x \in hits : \A y \in hits : x <= y

NewMarker == <<"/", "/", " ", "T", "O", "D", "O", ":", " ">>

\* lineText.replace(/\/\/\s*TODO:/, `// TODO: ${identifier}`)
newText(s, identifier) ==
  LET m == todoMatch(s) IN
  IF m.index = 0 THEN s
  ELSE SubSeq(s, 1, m.index - 1) \o NewMarker \o identifier
         \o SubSeq(s, m.end + 1, Len(s))

----------------------------------------------------------------------------
(* The git metadata reader. *)

\* A URL as its parts, e.g. <<"git@", "github.com", ":", "org/repo", ".git">>
SshUrl == <<"git@", "github.com", ":", "org/repo", ".git">>
HttpsUrl == <<"https://", "github.com", "/", "org/repo", ".git">>

sanitizeGitUrl(url) ==
  LET https == IF Len(url) >= 3 /\ url[1] = "git@" /\ url[3] = ":"
               THEN <<"https://", url[2], "/">> \o SubSeq(url, 4, Len(url))
               ELSE url
  IN IF Len(https) > 0 /\ https[Len(https)] = ".git"
     THEN SubSeq(https, 1, Len(https) - 1)
     ELSE https

\* What the filesystem can hold.  config and head say whether the file can
\* be read; origin is the optional url that the regular expression of line
\* 437 finds in config, branch the optional name that the one of line 443
\* finds in HEAD (none for a detached HEAD).
NoFolder == [workspace |-> FALSE, gitDir |-> FALSE, config |-> FALSE,
             origin |-> None, head |-> FALSE, branch |-> None]

FsStates ==
  { NoFolder,
    [workspace |-> TRUE, gitDir |-> FALSE, config |-> FALSE, origin |-> None,
     head |-> FALSE, branch |-> None],
    [workspace |-> TRUE, gitDir |-> TRUE, config |-> FALSE, origin |-> None,
     head |-> TRUE, branch |-> Some(<<"main">>)],
    [workspace |-> TRUE, gitDir |-> TRUE, config |-> TRUE, origin |-> Some(SshUrl),
     head |-> FALSE, branch |-> None],
    [workspace |-> TRUE, gitDir |-> TRUE, config |-> TRUE, origin |-> None,
     head |-> TRUE, branch |-> Some(<<"main">>)],
    [workspace |-> TRUE, gitDir |-> TRUE, config |-> TRUE, origin |-> Some(HttpsUrl),
     head |-> TRUE, branch |-> None],
    [workspace |-> TRUE, gitDir |-> TRUE, config |-> TRUE, origin |-> Some(SshUrl),
     head |-> TRUE, branch |-> Some(<<"main">>)] }

EmptyRepoInfo == [url |-> None, branch |-> None]

getRepositoryInfo(fs) ==
  IF ~fs.workspace THEN EmptyRepoInfo                  \* line 422
  ELSE IF ~fs.gitDir THEN EmptyRepoInfo                \* access throws, line 450
  ELSE IF ~fs.config THEN EmptyRepoInfo                \* readFile throws
  ELSE IF ~fs.head THEN EmptyRepoInfo                  \* readFile throws
  ELSE [url |-> IF fs.origin # None THEN Some(sanitizeGitUrl(fs.origin[1])) ELSE None,
        branch |-> fs.branch]

\* `${x}` of a template literal, x an optional text
Text(x) == IF x = None THEN UndefinedText ELSE x[1]

\* The "Source: ${url}/blob/${branch}/..." part of the description, line 225
sourceLink(repo) == Some([url |-> Text(repo.url), branch |-> Text(repo.branch)])

----------------------------------------------------------------------------
(* The tracker. *)

Teams == <<[id |-> "team1", name |-> "Eng"], [id |-> "team2", name |-> "Ops"]>>

\* the nodes each listing returns when it succeeds
Nodes(kind) ==
  CASE kind = "teamId" -> Teams
    [] kind = "projectId" -> <<[id |-> "project1", name |-> "Web"]>>
    [] kind = "cycleId" -> <<[id |-> "cycle0", name |-> Undefined],
                             [id |-> "cycle1", name |-> "Sprint"]>>
    [] kind = "statusId" -> <<[id |-> "status1", name |-> "Todo"]>>

Kinds == {"teamId", "projectId", "cycleId", "statusId"}

DigitChars == <<"1", "2", "3", "4", "5", "6", "7", "8", "9">>

\* the identifier of the n-th issue of the workspace
IssueId(n) == <<"X", "Y", "Z", "-", DigitChars[n]>>

NoSettings == [teamId |-> Undefined, projectId |-> Undefined,
               cycleId |-> Undefined, statusId |-> Undefined]

NoInput == [title |-> <<>>, teamId |-> Undefined, stateId |-> Undefined,
            projectId |-> Undefined, source |-> sourceLink(EmptyRepoInfo),
            stored |-> NoSettings, fs |-> NoFolder, repo |-> EmptyRepoInfo]

----------------------------------------------------------------------------
(* The editor. *)

TodoLine == <<"/", "/", " ", "T", "O", "D", "O", ":", " ", "a">>
CodeLine == <<"x">>
TypedLine == <<"/", "/", "T", "O", "D", "O", ":", "b">>

EditTexts == {TypedLine}

TaskIdle ==
  [pc |-> "idle", ready |-> FALSE, key0 |-> FALSE, client0 |-> NoClient,
   line0 |-> 0, multi |-> FALSE, marker0 |-> FALSE, prompted |-> FALSE,
   lineText |-> <<>>, taskTitle |-> <<>>,
   team |-> Undefined, attempts |-> 0, identifier |-> None, payload |-> FALSE,
   msg |-> "none", outcome |-> "running", failed |-> FALSE,
   created |-> FALSE, rewritten |-> FALSE]

CfgIdle == [pc |-> "idle", kind |-> "teamId", key0 |-> FALSE, nodes |-> <<>>,
            msg |-> "none", outcome |-> "running"]

HoverIdle == [pc |-> "idle", line |-> 0, character |-> 0, identifier |-> None,
              result |-> "pending", fetched |-> FALSE]

RtIdle == [phase |-> "off", prefix |-> <<>>, marker |-> <<>>, rest |-> <<>>,
           id |-> <<>>, line |-> <<>>, found |-> None]

Init ==
  /\ activated = FALSE
  /\ apiKey \in {NoKey, "lin_api_1"}
  /\ linearClient = NoClient
  /\ clients = 0
  /\ settings = NoSettings
  /\ doc = <<TodoLine, CodeLine>>
  /\ selection = [start |-> 1, end |-> 1]
  /\ task = [i \in 1..MaxTasks |-> TaskIdle]
  /\ cfg = CfgIdle
  /\ calls = {}
  /\ issueCount = 0
  /\ hover = HoverIdle
  /\ rt = RtIdle

----------------------------------------------------------------------------
(* Activation and the API key. *)

\* updateLinearClient, lines 156-167: the client that linearClient holds after it
updateLinearClient(key, current, n) ==
  IF key = NoKey THEN current ELSE [id |-> n + 1, key |-> key]

\* the number of clients constructed after updateLinearClient
constructed(key, n) == IF key = NoKey THEN n ELSE n + 1

\* activate, lines 93-154
Activate ==
  /\ ~activated
  /\ activated' = TRUE
  /\ linearClient' = updateLinearClient(apiKey, linearClient, clients)
  /\ clients' = constructed(apiKey, clients)
  /\ UNCHANGED <<apiKey, settings, doc, selection, task, cfg, calls, issueCount,
                 hover, rt>>

\* the user sets, replaces or clears linearTodo.apiKey in the settings; the
\* listener of lines 149-153 runs updateLinearClient
ChangeApiKey(k) ==
  /\ activated
  /\ k # apiKey
  /\ k # NoKey => clients < MaxClients
  /\ apiKey' = k
  /\ linearClient' = updateLinearClient(k, linearClient, clients)
  /\ clients' = constructed(k, clients)
  /\ UNCHANGED <<activated, settings, doc, selection, task, cfg, calls,
                 issueCount, hover, rt>>

\* configureLinearApiKey, lines 283-303: the key is stored (the listener runs
\* updateLinearClient when the value changed), then updateLinearClient runs again
configureLinearApiKey(k) ==
  /\ activated
  /\ clients + 1 < MaxClients
  /\ apiKey' = k
  /\ LET n == IF k # apiKey THEN constructed(k, clients) ELSE clients IN
       /\ linearClient' = updateLinearClient(k, linearClient, n)
       /\ clients' = constructed(k, n)
  /\ UNCHANGED <<activated, settings, doc, selection, task, cfg, calls,
                 issueCount, hover, rt>>

----------------------------------------------------------------------------
(* The user in the editor. *)

SelectLines(s, e) ==
  /\ s <= e
  /\ selection # [start |-> s, end |-> e]
  /\ selection' = [start |-> s, end |-> e]
  /\ UNCHANGED <<activated, apiKey, linearClient, clients, settings, doc, task,
                 cfg, calls, issueCount, hover, rt>>

EditLine(l, text) ==
  /\ doc[l] # text
  /\ doc' = [doc EXCEPT ![l] = text]
  /\ UNCHANGED <<activated, apiKey, linearClient, clients, settings, selection,
                 task, cfg, calls, issueCount, hover, rt>>

----------------------------------------------------------------------------
(* createLinearTask, lines 169-259, one action per continuation.  calls    *)
(* holds the remote calls in flight: a call enters it when the command     *)
(* issues it and leaves it when the tracker's response is delivered.       *)

Caller(i) == <<"createLinearTask", i>>

\* the text of the line on which the selection ends
endLineText(d, sel) == d[sel.end]

\* line 183: the text of the line on which the selection starts
startLineText(d, sel) == d[sel.start]

\* the client that linearClient held when the invocation started
clientAtStart(t) == t.client0

\* lines 200 and 218 read the module-level variable when the call is issued
clientInUse(t) == linearClient

\* line 247: the line that the edit replaces is the one on which the selection
\* starts when the edit is built
rewriteLine(t) == selection.start

\* What a finished invocation leaves behind: what the user saw and what happened.
Finished(t, msg, outcome) ==
  [TaskIdle EXCEPT !.pc = "done", !.msg = msg, !.outcome = outcome,
                   !.key0 = t.key0, !.ready = t.ready, !.multi = t.multi,
                   !.marker0 = t.marker0, !.prompted = t.prompted,
                   !.failed = t.failed, !.created = t.created,
                   !.payload = t.payload, !.rewritten = t.rewritten]

\* lines 169-192: from the invocation to the title prompt
createLinearTask(i) ==
  /\ activated
  /\ task[i].pc \in {"idle", "done"}
  /\ \A j \in 1..(i - 1) : task[j].pc # "idle"
  /\ \E editor \in BOOLEAN :
       LET lineText == startLineText(doc, selection)
           t0 == [TaskIdle EXCEPT !.key0 = (apiKey # NoKey),
                                  !.client0 = linearClient,
                                  !.ready = (linearClient # NoClient /\ editor),
                                  !.line0 = selection.start,
                                  !.multi = (selection.start # selection.end),
                                  !.marker0 = HasTodo(doc[selection.start])]
       IN task' = [task EXCEPT ![i] =
            IF linearClient = NoClient THEN Finished(t0, "error", "returned")
            ELSE IF ~editor THEN Finished(t0, "info", "returned")
            ELSE IF ~HasTodo(lineText) THEN Finished(t0, "info", "returned")
            ELSE [t0 EXCEPT !.pc = "title", !.prompted = TRUE,
                            !.lineText = lineText]]
  /\ UNCHANGED <<activated, apiKey, linearClient, clients, settings, doc,
                 selection, cfg, calls, issueCount, hover, rt>>

\* lines 192-200: the title prompt is answered; teams() is called
createLinearTask_title(i) ==
  /\ task[i].pc = "title"
  /\ \E answer \in {"accept", "dismiss"} :
       LET taskTitle == IF answer = "accept" THEN todoText(task[i].lineText) ELSE <<>>
       IN IF taskTitle = <<>>
          THEN /\ task' = [task EXCEPT ![i] = Finished(@, "none", "returned")]
               /\ UNCHANGED calls
          ELSE /\ task' = [task EXCEPT ![i].pc = "teams", ![i].taskTitle = taskTitle]
               /\ calls' = calls \cup
                    {[by |-> Caller(i), op |-> "teams", client |-> clientInUse(task[i]),
                      key0 |-> task[i].key0, client0 |-> task[i].client0,
                      input |-> NoInput]}
  /\ UNCHANGED <<activated, apiKey, linearClient, clients, settings, doc,
                 selection, cfg, issueCount, hover, rt>>

\* lines 200-217: teams() settles; line 200 is outside the try block, so a
\* rejection leaves the command as a rejected promise
createLinearTask_teams(i) ==
  /\ task[i].pc = "teams"
  /\ \E c \in calls, response \in {"nodes", "empty", "Error", "nonError"} :
       /\ c.by = Caller(i)
       /\ calls' = calls \ {c}
       /\ task' = [task EXCEPT ![i] =
            CASE response = "nodes" -> [@ EXCEPT !.pc = "repo", !.team = Teams[1].id]
              [] response = "empty" -> [@ EXCEPT !.pc = "repo", !.team = Undefined]
              [] OTHER -> Finished([@ EXCEPT !.failed = TRUE], @.msg, "rejected")]
  /\ UNCHANGED <<activated, apiKey, linearClient, clients, settings, doc,
                 selection, cfg, issueCount, hover, rt>>

\* lines 217-226: getRepositoryInfo settles; createIssue is called.  With no
\* team, team.id throws a TypeError, which line 252 catches.
createLinearTask_repo(i) ==
  /\ task[i].pc = "repo"
  /\ \E fs \in FsStates :
       LET repo == getRepositoryInfo(fs) IN
       IF task[i].team = Undefined
       THEN /\ task' = [task EXCEPT ![i] = Finished(@, "error", "returned")]
            /\ UNCHANGED calls
       ELSE /\ task' = [task EXCEPT ![i].pc = "create", ![i].attempts = @ + 1]
            /\ calls' = calls \cup
                 {[by |-> Caller(i), op |-> "createIssue",
                   client |-> clientInUse(task[i]), key0 |-> task[i].key0,
                   client0 |-> task[i].client0,
                   input |-> [title |-> task[i].taskTitle,
                              teamId |-> task[i].team,
                              stateId |-> settings.statusId,
                              projectId |-> settings.projectId,
                              source |-> sourceLink(repo),
                              stored |-> settings,
                              fs |-> fs,
                              repo |-> repo]]}
  /\ UNCHANGED <<activated, apiKey, linearClient, clients, settings, doc,
                 selection, cfg, issueCount, hover, rt>>

\* lines 218-232: createIssue settles; on success the notification is shown
createLinearTask_issue(i) ==
  /\ task[i].pc = "create"
  /\ \E c \in calls, response \in {"issue", "noIssue", "unsuccessful",
                                   "Error", "nonError"} :
       LET success == response \in {"issue", "noIssue"} IN
       /\ c.by = Caller(i)
       /\ success => issueCount < MaxIssues
       /\ calls' = calls \ {c}
       /\ task' = [task EXCEPT ![i] =
            CASE response = "issue" ->
                   [@ EXCEPT !.pc = "notify", !.created = TRUE, !.payload = TRUE,
                             !.identifier = Some(IssueId(issueCount + 1)),
                             !.msg = "info"]
              [] response = "noIssue" ->       \* issue.issue is undefined, line 235
                   [@ EXCEPT !.pc = "notify", !.created = TRUE, !.msg = "info"]
              [] response = "unsuccessful" ->
                   Finished([@ EXCEPT !.failed = TRUE], @.msg, "returned")
              [] response = "Error" ->
                   Finished([@ EXCEPT !.failed = TRUE], "error", "returned")
              [] response = "nonError" ->      \* line 253: not an Error, no message
                   Finished([@ EXCEPT !.failed = TRUE], @.msg, "returned")]
       /\ issueCount' = IF success THEN issueCount + 1 ELSE issueCount
  /\ UNCHANGED <<activated, apiKey, linearClient, clients, settings, doc,
                 selection, cfg, hover, rt>>

\* lines 234-250: the notification is answered or dismissed; the comment is
\* rewritten.  openExternal is not awaited and does not change the flow.
createLinearTask_notify(i) ==
  /\ task[i].pc = "notify"
  /\ \E action \in {"Open in Linear", Undefined} :
       IF action = "Open in Linear" /\ ~task[i].payload
       THEN /\ task' = [task EXCEPT ![i] = Finished(@, @.msg, "returned")]
            /\ UNCHANGED doc
       ELSE /\ doc' = [doc EXCEPT ![rewriteLine(task[i])] =
                         newText(task[i].lineText, Text(task[i].identifier))]
            /\ task' = [task EXCEPT ![i] =
                 Finished([@ EXCEPT !.rewritten = TRUE], @.msg, "returned")]
  /\ UNCHANGED <<activated, apiKey, linearClient, clients, settings, selection,
                 cfg, calls, issueCount, hover, rt>>

----------------------------------------------------------------------------
(* The configure commands, lines 261-282 and 305-390. *)

\* the names offered by showQuickPick; configureLinearCycle drops the
\* undefined ones (line 341)
Names(nodes) == {nodes[n].name : n \in DOMAIN nodes} \ {Undefined}

\* nodes.find(node => node.name === selected): the first such node
Find(nodes, selected) ==
  nodes[CHOOSE n \in DOMAIN nodes :
          /\ nodes[n].name = selected
          /\ \A m \in DOMAIN nodes : nodes[m].name = selected => n <= m]

\* What a finished configure command leaves behind
Configured(c, msg, outcome) ==
  [CfgIdle EXCEPT !.pc = "done", !.key0 = c.key0, !.msg = msg, !.outcome = outcome]

\* the command is invoked: linearClient?.teams() (or projects, cycles,
\* workflowStates); with no client the result is undefined and the command
\* shows "Failed to fetch"
configureLinear(kind) ==
  /\ activated
  /\ cfg.pc \in {"idle", "done"}
  /\ IF linearClient = NoClient
     THEN /\ cfg' = Configured([CfgIdle EXCEPT !.key0 = (apiKey # NoKey)],
                                "error", "returned")
          /\ UNCHANGED calls
     ELSE /\ cfg' = [CfgIdle EXCEPT !.pc = "list", !.kind = kind,
                                    !.key0 = (apiKey # NoKey)]
          /\ calls' = calls \cup
               {[by |-> <<"configureLinear", 0>>, op |-> kind, client |-> linearClient,
                 key0 |-> (apiKey # NoKey), client0 |-> linearClient,
                 input |-> NoInput]}
  /\ UNCHANGED <<activated, apiKey, linearClient, clients, settings, doc,
                 selection, task, issueCount, hover, rt>>

\* the listing settles; the await is in no try block
configureLinear_list ==
  /\ cfg.pc = "list"
  /\ \E c \in calls, response \in {"nodes", "empty", "rejected"} :
       LET nodes == IF response = "nodes" THEN Nodes(cfg.kind) ELSE <<>> IN
       /\ c.by = <<"configureLinear", 0>>
       /\ calls' = calls \ {c}
       /\ cfg' = IF response = "rejected"
                 THEN Configured(cfg, "none", "rejected")
                 ELSE IF cfg.kind = "cycleId" /\ Names(nodes) = {}     \* line 343
                 THEN Configured(cfg, "info", "returned")
                 ELSE [cfg EXCEPT !.pc = "pick", !.nodes = nodes]
  /\ UNCHANGED <<activated, apiKey, linearClient, clients, settings, doc,
                 selection, task, issueCount, hover, rt>>

\* the quick pick is answered or dismissed; the id of the picked node is stored
configureLinear_pick ==
  /\ cfg.pc = "pick"
  /\ \E selected \in Names(cfg.nodes) \cup {Undefined} :
       IF selected = Undefined
       THEN /\ cfg' = Configured(cfg, "none", "returned")
            /\ UNCHANGED settings
       ELSE /\ settings' = [settings EXCEPT ![cfg.kind] = Find(cfg.nodes, selected).id]
            /\ cfg' = Configured(cfg, "info", "returned")
  /\ UNCHANGED <<activated, apiKey, linearClient, clients, doc, selection, task,
                 calls, issueCount, hover, rt>>

----------------------------------------------------------------------------
(* Spec: one create-task invocation at a time, in an editor whose          *)
(* selection and text the user changes.                                    *)

Lines == 1..2

Next ==
  \/ Activate
  \/ \E s \in Lines, e \in Lines : SelectLines(s, e)
  \/ \E l \in Lines, text \in EditTexts : EditLine(l, text)
  \/ createLinearTask(1)
  \/ createLinearTask_title(1)
  \/ createLinearTask_teams(1)
  \/ createLinearTask_repo(1)
  \/ createLinearTask_issue(1)
  \/ createLinearTask_notify(1)

Spec == Init /\ [][Next]_vars

(* SpecKeys: one create-task invocation at a time and changes of the API   *)
(* key.                                                                    *)

NextKeys ==
  \/ Activate
  \/ \E k \in Keys \cup {NoKey} : ChangeApiKey(k)
  \/ \E k \in Keys : configureLinearApiKey(k)
  \/ createLinearTask(1)
  \/ createLinearTask_title(1)
  \/ createLinearTask_teams(1)
  \/ createLinearTask_repo(1)
  \/ createLinearTask_issue(1)
  \/ createLinearTask_notify(1)

SpecKeys == Init /\ [][NextKeys]_vars

(* SpecConfig: the user invokes the configure commands and create-task,    *)
(* one command at a time, and changes the API key at any moment.           *)

NoCommandRunning ==
  cfg.pc \in {"idle", "done"} /\ task[1].pc \in {"idle", "done"}

NextConfig ==
  \/ Activate
  \/ \E k \in Keys \cup {NoKey} : ChangeApiKey(k)
  \/ \E kind \in Kinds : NoCommandRunning /\ configureLinear(kind)
  \/ configureLinear_list
  \/ configureLinear_pick
  \/ NoCommandRunning /\ createLinearTask(1)
  \/ createLinearTask_title(1)
  \/ createLinearTask_teams(1)
  \/ createLinearTask_repo(1)
  \/ createLinearTask_issue(1)
  \/ createLinearTask_notify(1)

SpecConfig == Init /\ [][NextConfig]_vars

(* SpecRace: up to MaxTasks create-task invocations in flight at once,     *)
(* interleaved with the user's edits and selection moves.                  *)

NextRace ==
  \/ Activate
  \/ \E s \in Lines, e \in Lines : SelectLines(s, e)
  \/ \E l \in Lines, text \in EditTexts : EditLine(l, text)
  \/ \E i \in 1..MaxTasks : createLinearTask(i)
  \/ \E i \in 1..MaxTasks : createLinearTask_title(i)
  \/ \E i \in 1..MaxTasks : createLinearTask_teams(i)
  \/ \E i \in 1..MaxTasks : createLinearTask_repo(i)
  \/ \E i \in 1..MaxTasks : createLinearTask_issue(i)
  \/ \E i \in 1..MaxTasks : createLinearTask_notify(i)

SpecRace == Init /\ [][NextRace]_vars

----------------------------------------------------------------------------
(* provideHover, lines 22-64. *)

\* lines 31-39: the range from the T of the first "TODO:" of the line to the
\* position after its last O contains the position (columns count from 0)
inRange(lineText, character) ==
  LET todoStart == indexOfTodo(lineText) - 1
      todoEnd == todoStart + 4
  IN todoStart <= character /\ character <= todoEnd

Hovered(h, result, fetched) ==
  [HoverIdle EXCEPT !.pc = "done", !.line = h.line, !.character = h.character,
                    !.identifier = h.identifier, !.result = result,
                    !.fetched = fetched]

\* lines 27-49: the host asks for a hover at a position
provideHover(l, character) ==
  /\ activated
  /\ hover.pc \in {"idle", "done"}
  /\ LET lineText == doc[l]
         h == [HoverIdle EXCEPT !.line = l, !.character = character,
                                !.identifier = linearTaskMatch(lineText)]
     IN IF ~HasTodo(lineText) THEN
             /\ hover' = Hovered(h, "undefined", FALSE) /\ UNCHANGED calls
        ELSE IF ~inRange(lineText, character) THEN
             /\ hover' = Hovered(h, "undefined", FALSE) /\ UNCHANGED calls
        ELSE IF h.identifier = None THEN
             /\ hover' = Hovered(h, "undefined", FALSE) /\ UNCHANGED calls
        ELSE IF linearClient = NoClient THEN
             \* linearClient?.issue(...) is undefined: every issue?.x is undefined
             /\ hover' = Hovered(h, "hover", FALSE) /\ UNCHANGED calls
        ELSE /\ hover' = [h EXCEPT !.pc = "issue"]
             /\ calls' = calls \cup
                  {[by |-> <<"provideHover", 0>>, op |-> "issue",
                    client |-> linearClient, key0 |-> (apiKey # NoKey),
                    client0 |-> linearClient, input |-> NoInput]}
  /\ UNCHANGED <<activated, apiKey, linearClient, clients, settings, doc,
                 selection, task, cfg, issueCount, rt>>

\* line 49: issue() settles; a rejection (no such issue, no network) is caught
\* at line 58
provideHover_issue ==
  /\ hover.pc = "issue"
  /\ \E c \in calls, response \in {"issue", "rejected"} :
       /\ c.by = <<"provideHover", 0>>
       /\ calls' = calls \ {c}
       /\ hover' = IF response = "issue" THEN [hover EXCEPT !.pc = "creator"]
                   ELSE Hovered(hover, "undefined", FALSE)
  /\ UNCHANGED <<activated, apiKey, linearClient, clients, settings, doc,
                 selection, task, cfg, issueCount, rt>>

\* lines 50-57: issue.creator settles; the hover is built
provideHover_creator ==
  /\ hover.pc = "creator"
  /\ \E response \in {"user", "rejected"} :
       hover' = IF response = "user" THEN Hovered(hover, "hover", TRUE)
                ELSE Hovered(hover, "undefined", FALSE)
  /\ UNCHANGED <<activated, apiKey, linearClient, clients, settings, doc,
                 selection, task, cfg, calls, issueCount, rt>>

(* SpecHover: the hover provider on a document with and without created    *)
(* tasks, while the API key changes.                                       *)

HoverLine == <<"/", "/", " ", "T", "O", "D", "O", ":", " ", "X", "Y", "Z", "-", "1">>
MaxColumn == 8

InitHover ==
  /\ activated = FALSE
  /\ apiKey \in {NoKey, "lin_api_1"}
  /\ linearClient = NoClient
  /\ clients = 0
  /\ settings = NoSettings
  /\ doc \in {<<HoverLine, CodeLine>>, <<TodoLine, HoverLine>>}
  /\ selection = [start |-> 1, end |-> 1]
  /\ task = [i \in 1..MaxTasks |-> TaskIdle]
  /\ cfg = CfgIdle
  /\ calls = {}
  /\ issueCount = 0
  /\ hover = HoverIdle
  /\ rt = RtIdle

NextHover ==
  \/ Activate
  \/ \E k \in Keys \cup {NoKey} : ChangeApiKey(k)
  \/ \E l \in Lines, character \in 0..MaxColumn : provideHover(l, character)
  \/ provideHover_issue
  \/ provideHover_creator

SpecHover == InitHover /\ [][NextHover]_vars

----------------------------------------------------------------------------
(* The claims. *)

TaskCalls == {c \in calls : c.by[1] = "createLinearTask"}
CreateCalls == {c \in calls : c.op = "createIssue"}

\* C1: whenever no API key is configured when it is invoked, create-task and
\* each listing command abort with an error message and make no remote call.
C1_NoKeyNoRemoteCall ==
  /\ \A c \in calls : c.by[1] \in {"createLinearTask", "configureLinear"} => c.key0
  /\ \A i \in 1..MaxTasks :
       task[i].pc # "idle" /\ ~task[i].key0
         => task[i].pc = "done" /\ task[i].msg = "error"
  /\ cfg.pc # "idle" /\ ~cfg.key0 => cfg.pc = "done" /\ cfg.msg = "error"

C3_CreatedThenRewritten ==
  \A i \in 1..MaxTasks :
    task[i].pc = "done" /\ task[i].created
      => task[i].rewritten /\ task[i].payload

\* C5: a failed remote call of create-task is surfaced as an error message and
\* never leaves the command as a rejection or silently, and the command makes
\* no second creation attempt.
C5_FailureSurfaced ==
  \A i \in 1..MaxTasks :
    /\ task[i].pc = "done" /\ task[i].failed
         => task[i].msg = "error" /\ task[i].outcome = "returned"
    /\ task[i].attempts <= 1

\* C6 as stated: every remote call of a create-task invocation is made through
\* the client that was current when the invocation started.
C6_CallsUseStartClient ==
  \A c \in TaskCalls : c.client = c.client0

\* C6 as amended: every remote call is made through the client that
\* linearClient holds at the moment the call is issued.
C6_CallsUseCurrentClient ==
  [][\A c \in calls' \ calls : c.client = linearClient]_vars

\* the key was changed during an invocation, whose createIssue call goes
\* through another client than the one current at its start
C6_Witness ==
  \E c \in CreateCalls : c.client # c.client0 /\ c.client0 # NoClient

\* C7: the issue-creation request carries the team, project, cycle and status
\* ids most recently stored in the settings.
C7_RequestCarriesSettings ==
  \A c \in CreateCalls :
    /\ c.input.stored.teamId # Undefined => c.input.teamId = c.input.stored.teamId
    /\ c.input.projectId = c.input.stored.projectId
    /\ c.input.stateId = c.input.stored.statusId
    /\ c.input.stored.cycleId # Undefined
         => /\ "cycleId" \in DOMAIN c.input
            /\ c.input["cycleId"] = c.input.stored.cycleId

\* C8: the hover provider returns a hover only for an issue fetched from the
\* tracker, and nothing otherwise.
C8_HoverOnlyForFetchedIssue ==
  hover.pc = "done" => (hover.result = "hover" => hover.fetched)

\* what the reader cannot read or parse
Unreadable(fs) ==
  \/ ~fs.workspace \/ ~fs.gitDir \/ ~fs.config \/ ~fs.head
  \/ fs.origin = None \/ fs.branch = None

\* C9: when the folder, .git, config or HEAD is absent or unparsable the
\* reader returns the empty result, and create-task then builds no source link.
C9_NoLinkFromMissingInfo ==
  \A c \in CreateCalls :
    /\ Unreadable(c.input.fs) => c.input.repo = EmptyRepoInfo
    /\ c.input.repo = EmptyRepoInfo => c.input.source = None

\* C10: the rewrite replaces the line from which the invocation read the TODO
\* text, and changes only the marker of that line as it is when the rewrite
\* happens.
C10_RewriteSameLineOnlyMarker ==
  [][\A i \in 1..MaxTasks :
       task[i].pc = "notify" /\ task'[i].rewritten
         => /\ \A l \in Lines \ {task[i].line0} : doc'[l] = doc[l]
            /\ doc'[task[i].line0] =
                 newText(doc[task[i].line0], Text(task[i].identifier))]_vars

----------------------------------------------------------------------------
(* The rewrite and re-match pipeline on one line: lines 241-250 followed by *)
(* the hover's identifier extraction, lines 44-49.                          *)

Digits == {"1", "9"}

RECURSIVE DigitStrings(_)
\* the digit strings of length 1..n
DigitStrings(n) ==
  IF n = 0 THEN {}
  ELSE LET shorter == DigitStrings(n - 1) IN
       {<<d>> : d \in Digits} \cup shorter \cup {t \o <<d>> : t \in shorter, d \in Digits}

\* identifiers the tracker assigns: [A-Z]{3,5}-\d+
Identifiers ==
  {p \o <<"-">> \o n : p \in {<<"X", "Y", "Z">>, <<"A", "B", "C", "D", "E">>},
                       n \in DigitStrings(MaxDigits)}

\* text before the comment
Prefixes == {<<>>, <<"x", " ">>, <<"A", "B", "C", "-", "7", " ">>}
\* the marker as the user typed it: // then optional whitespace then TODO:
Markers == {<<"/", "/", "T", "O", "D", "O", ":">>,
            <<"/", "/", " ", "T", "O", "D", "O", ":">>}
\* the rest of the line after the marker
Rests == {<<>>, <<" ", "f", "i", "x">>, <<"9", " ", "f">>,
          <<" ", "A", "B", "C", "-", "7", " ", "f">>}

InitMatch ==
  /\ activated = FALSE
  /\ apiKey = NoKey
  /\ linearClient = NoClient
  /\ clients = 0
  /\ settings = NoSettings
  /\ doc = <<TodoLine, CodeLine>>
  /\ selection = [start |-> 1, end |-> 1]
  /\ task = [i \in 1..MaxTasks |-> TaskIdle]
  /\ cfg = CfgIdle
  /\ calls = {}
  /\ issueCount = 0
  /\ hover = HoverIdle
  /\ \E p \in Prefixes, m \in Markers, r \in Rests, id \in Identifiers :
       rt = [phase |-> "read", prefix |-> p, marker |-> m, rest |-> r, id |-> id,
             line |-> p \o m \o r, found |-> None]

\* lines 242-250: the line is replaced by newText
RewriteLine ==
  /\ rt.phase = "read"
  /\ rt' = [rt EXCEPT !.phase = "rewritten", !.line = newText(rt.line, rt.id)]
  /\ UNCHANGED <<activated, apiKey, linearClient, clients, settings, doc,
                 selection, task, cfg, calls, issueCount, hover>>

\* lines 44-45: the hover extracts the identifier of the rewritten line
MatchIdentifier ==
  /\ rt.phase = "rewritten"
  /\ rt' = [rt EXCEPT !.phase = "matched", !.found = linearTaskMatch(rt.line)]
  /\ UNCHANGED <<activated, apiKey, linearClient, clients, settings, doc,
                 selection, task, cfg, calls, issueCount, hover>>

NextMatch == RewriteLine \/ MatchIdentifier

SpecMatch == InitMatch /\ [][NextMatch]_vars

\* C4: the rewritten line is the original line with the marker replaced by
\* "// TODO: ID" and every other character unchanged, and the identifier
\* extraction of the hover on the rewritten line yields exactly ID.
C4_RoundTrip ==
  /\ rt.phase \in {"rewritten", "matched"}
       => rt.line = rt.prefix \o NewMarker \o rt.id \o rt.rest
  /\ rt.phase = "matched" => rt.found = Some(rt.id)


====
